---- MODULE Spec2Model ----
(***************************************************************************)
(* Source browser of docs.rs (src/web/source.rs): the flat-manifest to     *)
(* one-level directory listing (FileList::from_path) and the request       *)
(* handler (source_browser_handler).                                       *)
(*                                                                         *)
(* Strings are sequences of one-character strings, so that starts_with,    *)
(* replace, split, join, to_lowercase and the byte-wise comparison of Rust *)
(* strings are computed character by character.                            *)
(***************************************************************************)
EXTENDS Integers, Sequences, FiniteSets, TLC

VARIABLES rows, list_path, list_result,
          files, req, pc, crate_name, version, req_path, file_path,
          blob, file_content, is_rust_source, response, fetches, listings

list_vars == <<rows, list_path, list_result>>
handler_vars == <<files, req, pc, crate_name, version, req_path, file_path,
                  blob, file_content, is_rust_source, response, fetches, listings>>
vars == <<rows, list_path, list_result,
          files, req, pc, crate_name, version, req_path, file_path,
          blob, file_content, is_rust_source, response, fetches, listings>>

(***************************************************************************)
(* Bounds of the model.                                                    *)
(***************************************************************************)
\* longest manifest (number of [mime, path] pairs) of a release
MaxFiles == 3
\* most path segments after /crate/:name/:version/source/ in a request
MaxSegs == 2

(***************************************************************************)
(* Characters and strings.                                                 *)
(***************************************************************************)
\* the printable ASCII characters, code 32 first (code 96 is spelled out)
Ascii ==
  <<" ", "!", "\"", "#", "$", "%", "&", "'", "(", ")", "*", "+", ",", "-", ".", "/",
    "0", "1", "2", "3", "4", "5", "6", "7", "8", "9", ":", ";", "<", "=", ">", "?",
    "@", "A", "B", "C", "D", "E", "F", "G", "H", "I", "J", "K", "L", "M", "N", "O",
    "P", "Q", "R", "S", "T", "U", "V", "W", "X", "Y", "Z", "[", "\\", "]", "^", "_",
    "backtick", "a", "b", "c", "d", "e", "f", "g", "h", "i", "j", "k", "l", "m", "n", "o",
    "p", "q", "r", "s", "t", "u", "v", "w", "x", "y", "z", "{", "|", "}", "~">>

\* the byte of an ASCII character
Code(c) == 31 + (CHOOSE i \in 1..Len(Ascii) : Ascii[i] = c)

\* char::to_lowercase on ASCII
to_lowercase_char(c) ==
  IF Code(c) >= 65 /\ Code(c) <= 90 THEN Ascii[Code(c) + 32 - 31] ELSE c

\* str::to_lowercase
to_lowercase(s) == [i \in 1..Len(s) |-> to_lowercase_char(s[i])]

\* Ord for str: lexicographic on bytes
RECURSIVE cmp(_, _)
cmp(a, b) ==
  IF a = <<>> /\ b = <<>> THEN "Equal"
  ELSE IF a = <<>> THEN "Less"
  ELSE IF b = <<>> THEN "Greater"
  ELSE IF Code(Head(a)) < Code(Head(b)) THEN "Less"
  ELSE IF Code(Head(a)) > Code(Head(b)) THEN "Greater"
  ELSE cmp(Tail(a), Tail(b))

\* str::starts_with
starts_with(s, p) == Len(p) <= Len(s) /\ SubSeq(s, 1, Len(p)) = p

\* str::ends_with
ends_with(s, p) ==
  Len(p) <= Len(s) /\ SubSeq(s, Len(s) - Len(p) + 1, Len(s)) = p

\* the text after the first Len(p) characters
drop(s, n) == SubSeq(s, n + 1, Len(s))

\* str::replace(from, to): every non-overlapping match, left to right; an
\* empty pattern matches at every character boundary
RECURSIVE replace(_, _, _)
replace(s, from, to) ==
  IF from = <<>>
    THEN IF s = <<>> THEN to ELSE to \o <<Head(s)>> \o replace(Tail(s), from, to)
  ELSE IF s = <<>> THEN <<>>
  ELSE IF starts_with(s, from) THEN to \o replace(drop(s, Len(from)), from, to)
  ELSE <<Head(s)>> \o replace(Tail(s), from, to)

\* str::split(c): the pieces between the separators, always at least one
RECURSIVE split(_, _)
split(s, c) ==
  IF \A i \in 1..Len(s) : s[i] # c THEN <<s>>
  ELSE LET k == CHOOSE i \in 1..Len(s) :
                  s[i] = c /\ \A j \in 1..(i - 1) : s[j] # c
       IN <<SubSeq(s, 1, k - 1)>> \o split(drop(s, k), c)

\* [&str]::join(sep)
RECURSIVE join(_, _)
join(segs, sep) ==
  IF segs = <<>> THEN <<>>
  ELSE IF Len(segs) = 1 THEN segs[1]
  ELSE segs[1] \o sep \o join(Tail(segs), sep)

None == [some |-> FALSE]
Some(x) == [some |-> TRUE, val |-> x]

(***************************************************************************)
(* Literals of the source.                                                 *)
(***************************************************************************)
Slash == <<"/">>
CargoOk == <<".", "c", "a", "r", "g", "o", "-", "o", "k">>
Dir == <<"d", "i", "r">>
Text == <<"t", "e", "x", "t">>
DotRs == <<".", "r", "s">>

(***************************************************************************)
(* Values the inputs are drawn from.                                       *)
(***************************************************************************)
TextPlain == <<"t", "e", "x", "t", "/", "p", "l", "a", "i", "n">>
TextRust == <<"t", "e", "x", "t", "/", "x", "-", "r", "u", "s", "t">>
ImagePng == <<"i", "m", "a", "g", "e", "/", "p", "n", "g">>

\* the crate and the releases the database holds
StoredName == <<"f", "_", "b">>
V010 == <<"0", ".", "1", ".", "0">>
V012 == <<"0", ".", "1", ".", "2">>

\* [mime, path] pairs a manifest (releases.files) is made of
ManifestEntries ==
  { [mime |-> TextPlain, path |-> CargoOk],
    [mime |-> TextPlain, path |-> <<"s", "u", "b", "/", ".", "c", "a", "r", "g", "o", "-", "o", "k">>],
    [mime |-> TextRust,  path |-> <<"s", "r", "c", "/", "s", "r", "c", "/", "l", "i", "b", ".", "r", "s">>],
    [mime |-> TextRust,  path |-> <<"s", "r", "c", "/", "l", "i", "b", ".", "r", "s">>],
    [mime |-> TextPlain, path |-> <<"s", "r", "c", "/", "l", "i", "b", ".", "r", "s">>],
    [mime |-> TextPlain, path |-> <<"R", "E", "A", "D", "M", "E", ".", "m", "d">>],
    [mime |-> TextPlain, path |-> <<"a", ".", "m", "d">>],
    [mime |-> TextRust,  path |-> <<"s", "r", "c", "/", "Z", "e", "d", ".", "r", "s">>],
    [mime |-> ImagePng,  path |-> <<"T", "m", "p", "/", "b", ".", "p", "n", "g">>],
    [mime |-> TextPlain, path |-> <<".", "g", "i", "t", "i", "g", "n", "o", "r", "e">>] }

\* the directories asked for: the root, two that exist, one that does not
Prefixes == { <<>>, <<"s", "r", "c", "/">>, <<"s", "u", "b", "/">>, <<"n", "o", "p", "e", "/">> }

\* the sequences over S of length at most n
SeqUpTo(S, n) == UNION { [1..k -> S] : k \in 0..n }

\* the JSON value of releases.files
JsonNull == [kind |-> "null", items |-> <<>>]
JsonArray(items) == [kind |-> "array", items |-> items]

\* the rows the query of from_path returns: none, or the one release
Row(fs) == [name |-> StoredName, version |-> V010, files |-> fs]
RowSets ==
  { <<>>, <<Row(JsonNull)>> }
    \cup { <<Row(JsonArray(m))>> : m \in SeqUpTo(ManifestEntries, MaxFiles) }

(***************************************************************************)
(* FileList::from_path                                                     *)
(***************************************************************************)
\* "remove req_path from path to reach files in this directory"
strip_req_path(path, p) == replace(path, p, <<>>)

\* the File pushed for a manifest entry under req_path
file_of(file, p) ==
  LET path == strip_req_path(file.path, p)
      path_splited == split(path, "/")
  IN [name |-> path_splited[1],
      mime |-> IF Len(path_splited) > 1 THEN Dir ELSE file.mime]

\* the skip left out: nothing is skipped
skipped_never(path) == FALSE

\* "skip .cargo-ok generated by cargo"
skipped(path) == path = CargoOk

\* Vec::contains
contains(list, f) == \E i \in 1..Len(list) : list[i] = f

\* the duplicate check left out
push_always(list, f) == Append(list, f)

\* "avoid adding duplicates, a directory may occur more than once"
push_unique(list, f) == IF contains(list, f) THEN list ELSE Append(list, f)

\* the loop over the manifest
RECURSIVE collect(_, _, _)
collect(items, p, file_list) ==
  IF items = <<>> THEN file_list
  ELSE LET file == Head(items)
       IN IF skipped(file.path) THEN collect(Tail(items), p, file_list)
          ELSE IF starts_with(file.path, p)
            THEN collect(Tail(items), p, push_unique(file_list, file_of(file, p)))
          ELSE collect(Tail(items), p, file_list)

\* the comparator without to_lowercase
file_cmp_case_sensitive(a, b) ==
  IF a.mime = Dir /\ b.mime # Dir THEN "Less"
  ELSE IF a.mime # Dir /\ b.mime = Dir THEN "Greater"
  ELSE cmp(a.name, b.name)

\* the comparator of file_list.sort_by
file_cmp(a, b) ==
  IF a.mime = Dir /\ b.mime # Dir THEN "Less"
  ELSE IF a.mime # Dir /\ b.mime = Dir THEN "Greater"
  ELSE cmp(to_lowercase(a.name), to_lowercase(b.name))

\* x put before the first element it is Less than
RECURSIVE insert(_, _)
insert(sorted, x) ==
  IF sorted = <<>> THEN <<x>>
  ELSE IF file_cmp(x, Head(sorted)) = "Less" THEN <<x>> \o sorted
  ELSE <<Head(sorted)>> \o insert(Tail(sorted), x)

\* slice::sort_by, a stable sort
RECURSIVE sort_from(_, _)
sort_from(sorted, rest) ==
  IF rest = <<>> THEN sorted ELSE sort_from(insert(sorted, Head(rest)), Tail(rest))

sort_by(list) == sort_from(<<>>, list)

\* from_path without the return of None for an empty file_list
from_path_keeps_empty(rs, p) ==
  IF rs = <<>> THEN None
  ELSE IF rs[1].files.kind # "array" THEN None
  ELSE Some([metadata |-> [name |-> rs[1].name, version |-> rs[1].version],
             files |-> sort_by(collect(rs[1].files.items, p, <<>>))])

from_path(rs, p) ==
  IF rs = <<>> THEN None
  ELSE IF rs[1].files.kind # "array" THEN None
  ELSE LET file_list == collect(rs[1].files.items, p, <<>>)
       IN IF file_list = <<>> THEN None
          ELSE Some([metadata |-> [name |-> rs[1].name, version |-> rs[1].version],
                     files |-> sort_by(file_list)])

(***************************************************************************)
(* The specification of FileList::from_path alone: a query result and a    *)
(* directory are drawn, and the function is applied to them.               *)
(***************************************************************************)
Idle ==
  /\ files = <<>> /\ req = [path |-> <<>>]
  /\ crate_name = <<>> /\ version = <<>> /\ req_path = <<>> /\ file_path = <<>>
  /\ blob = None /\ file_content = None /\ is_rust_source = FALSE
  /\ response = [kind |-> "none"] /\ fetches = <<>> /\ listings = <<>>

InitList ==
  /\ rows \in RowSets
  /\ list_path \in Prefixes
  /\ list_result = [called |-> FALSE]
  /\ pc = "list"
  /\ Idle

ListFiles ==
  /\ pc = "list"
  /\ ~list_result.called
  /\ list_result' = [called |-> TRUE, out |-> from_path(rows, list_path)]
  /\ UNCHANGED <<rows, list_path>>
  /\ UNCHANGED handler_vars

NextList == ListFiles

SpecList == InitList /\ [][NextList]_vars

(***************************************************************************)
(* What source_browser_handler works with.                                 *)
(***************************************************************************)
\* the versions of StoredName in the database
StoredVersions == { V010, V012 }

\* the manifests of the releases the handler is run against
ReleaseEntries ==
  { [mime |-> TextRust,  path |-> <<"s", "r", "c", "/", "l", "i", "b", ".", "r", "s">>],
    [mime |-> TextPlain, path |-> <<"R", "E", "A", "D", "M", "E", ".", "m", "d">>],
    [mime |-> TextPlain, path |-> CargoOk] }

\* the :name and :version of the requests
ReqNames == { StoredName, <<"f", "-", "b">> }
ReqVersions == { V010, <<"*">>, <<"0", ".", "1", ".", "1">>, <<"0", ".", "2", ".", "0">> }

\* the path segments after /crate/:name/:version/source (the last one is
\* empty for a directory)
Segments == { <<>>, <<"s", "r", "c">>, <<"l", "i", "b", ".", "r", "s">> }
Rests == UNION { [1..k -> Segments] : k \in 1..MaxSegs }

\* Request::url.path() of the routes /crate/:name/:version/source/ and
\* /crate/:name/:version/source/*
UrlPath(name, ver, rest) == <<<<"c", "r", "a", "t", "e">>, name, ver, <<"s", "o", "u", "r", "c", "e">>>> \o rest
Requests ==
  { [path |-> UrlPath(n, v, r)] : n \in ReqNames, v \in ReqVersions, r \in Rests }

\* router.find("name") and router.find("version")
find_name(r) == r.path[2]
find_version(r) == r.path[3]

\* Vec::drain(0..4), and the four calls of remove(0)
drain4(path) == SubSeq(path, 5, Len(path))

\* the bytes of a blob: nothing, the text "fn", a byte no UTF-8 text holds
Contents == { <<>>, <<102, 110>>, <<255>> }
BlobMimes == { TextRust, ImagePng }

\* String::from_utf8(..).ok() on the bytes above: ASCII is valid, 0xFF is not
from_utf8(bytes) ==
  IF \A i \in 1..Len(bytes) : bytes[i] >= 32 /\ bytes[i] < 127
    THEN Some([i \in 1..Len(bytes) |-> Ascii[bytes[i] - 31]])
    ELSE None

\* Storage::fetch_source_file(..).ok(): no blob, or a blob of that path;
\* no blob is stored under the empty path
FetchResults(path) ==
  { None } \cup
  (IF path = <<>> THEN {}
   ELSE { Some([path |-> path, mime |-> m, content |-> c]) :
            m \in BlobMimes, c \in Contents })

\* the rows of releases joined with crates for a name and a version
Query(fs, name, ver) ==
  IF name = StoredName /\ ver \in StoredVersions
    THEN <<[name |-> name, version |-> ver, files |-> JsonArray(fs)]>>
    ELSE <<>>

(***************************************************************************)
(* match_version (web/mod.rs)                                              *)
(***************************************************************************)
\* normalize_crate_name: - and _ are the same character
normalize(name) == [i \in 1..Len(name) |-> IF name[i] = "-" THEN "_" ELSE name[i]]

\* a version or requirement "M.m.p" of one-digit numbers
is_triple(s) ==
  /\ Len(s) = 5 /\ s[2] = "." /\ s[4] = "."
  /\ \A i \in {1, 3, 5} : Code(s[i]) >= 48 /\ Code(s[i]) <= 57
num(s, i) == Code(s[i]) - 48

\* semver ordering of two triples
version_lt(a, b) ==
  \/ num(a, 1) < num(b, 1)
  \/ num(a, 1) = num(b, 1) /\ num(a, 3) < num(b, 3)
  \/ num(a, 1) = num(b, 1) /\ num(a, 3) = num(b, 3) /\ num(a, 5) < num(b, 5)

\* VersionReq::matches: * matches everything, a bare version is a caret
\* requirement
semver_matches(r, v) ==
  \/ r = <<"*">>
  \/ /\ is_triple(r)
     /\ ~version_lt(v, r)
     /\ IF num(r, 1) > 0 THEN num(v, 1) = num(r, 1)
        ELSE IF num(r, 3) > 0 THEN num(v, 1) = 0 /\ num(v, 3) = num(r, 3)
        ELSE v = r

match_version(name, req_version) ==
  IF normalize(name) # normalize(StoredName) THEN [ok |-> FALSE]
  ELSE LET corrected_name == IF name # StoredName THEN Some(StoredName) ELSE None
           matching == { v \in StoredVersions : semver_matches(req_version, v) }
       IN IF req_version \in StoredVersions
            THEN [ok |-> TRUE, corrected_name |-> corrected_name,
                  version |-> [tag |-> "Exact", version |-> req_version]]
          ELSE IF matching # {}
            THEN [ok |-> TRUE, corrected_name |-> corrected_name,
                  version |-> [tag |-> "Semver",
                               version |-> CHOOSE v \in matching :
                                             \A w \in matching : ~version_lt(v, w)]]
          ELSE [ok |-> FALSE]

(***************************************************************************)
(* source_browser_handler                                                  *)
(***************************************************************************)
\* redirect_base(req): the scheme and host redirects are made to
redirect_base(r) == <<"h", "t", "t", "p", "s", ":", "/", "/", "d", "o", "c", "s", ".", "r", "s">>

\* the redirect without the rest of the request path
redirect_url_no_rest(r, name, ver, rest) ==
  redirect_base(r) \o <<"/", "c", "r", "a", "t", "e", "/">> \o name \o Slash \o ver \o <<"/", "s", "o", "u", "r", "c", "e", "/">>

\* the format! of the redirect of a version matched by semver
redirect_url(r, name, ver, rest) ==
  redirect_base(r) \o <<"/", "c", "r", "a", "t", "e", "/">> \o name \o Slash \o ver \o <<"/", "s", "o", "u", "r", "c", "e", "/">> \o join(rest, Slash)

\* the name the handler goes on with: the corrected one when there is one
use_name(requested, v) ==
  IF v.corrected_name.some THEN v.corrected_name.val ELSE requested

\* whether the handler answers the matched version with a redirect
redirects(v) == v.version.tag = "Semver"

\* "remove file name if it's not a directory"
blank_last(rp) ==
  IF rp # <<>> /\ rp[Len(rp)] # <<>> THEN [rp EXCEPT ![Len(rp)] = <<>>] ELSE rp

\* (req_path, file_path): the directory for FileList::from_path and the path
\* for the storage
paths(r, name, ver) ==
  LET rp == drain4(r.path)
  IN [file_path |-> join(rp, Slash),
      req_path |-> replace(join(blank_last(rp), Slash),
                           name \o Slash \o ver \o Slash, <<>>)]

\* "skip if request is a directory"
fetches_blob(fp) == ~ends_with(fp, Slash)

\* the test of the mime type without its negation
passes_through_text(b) == starts_with(b.mime, Text) /\ b.content # <<>>

\* "serve the file with DatabaseFileHandler if file isn't text and not empty"
passes_through(b) == ~starts_with(b.mime, Text) /\ b.content # <<>>

\* (file_content, is_rust_source) of a blob that is not passed through
inline(b) ==
  IF starts_with(b.mime, Text) /\ b.content # <<>>
    THEN [file_content |-> from_utf8(b.content),
          is_rust_source |-> ends_with(b.path, DotRs)]
    ELSE [file_content |-> None, is_rust_source |-> FALSE]

\* DbFile(blob).serve(): the bytes of the blob under its own mime type
serve(b) == [kind |-> "file", mime |-> b.mime, body |-> b.content]

\* show_parent_link
show_parent_link(p) == p # <<>>

\* a page without a listing whenever there is content to show
listing_response_content_wins(file_list, p, content, rust) ==
  IF file_list.some \/ content.some
    THEN [kind |-> "page",
          file_list |-> IF file_list.some THEN file_list.val ELSE <<>>,
          show_parent_link |-> show_parent_link(p),
          file_content |-> content, is_rust_source |-> rust]
    ELSE [kind |-> "not_found"]

\* the end of the handler: ResourceNotFound without a listing, else the page
listing_response(file_list, p, content, rust) ==
  IF file_list.some
    THEN [kind |-> "page", file_list |-> file_list.val,
          show_parent_link |-> show_parent_link(p),
          file_content |-> content, is_rust_source |-> rust]
    ELSE [kind |-> "not_found"]

Init ==
  /\ rows = <<>> /\ list_path = <<>> /\ list_result = [called |-> FALSE]
  /\ files \in SeqUpTo(ReleaseEntries, MaxFiles)
  /\ req = [path |-> <<>>]
  /\ pc = "idle"
  /\ crate_name = <<>> /\ version = <<>> /\ req_path = <<>> /\ file_path = <<>>
  /\ blob = None /\ file_content = None /\ is_rust_source = FALSE
  /\ response = [kind |-> "none"] /\ fetches = <<>> /\ listings = <<>>

\* the router hands a request to the handler
Receive(r) ==
  /\ pc = "idle"
  /\ req' = r
  /\ pc' = "resolve"
  /\ UNCHANGED <<blob, files, crate_name, version, req_path, file_path, file_content,
                 is_rust_source, response, fetches, listings>>
  /\ UNCHANGED list_vars

\* match_version fails: the error is returned
VersionNotFound ==
  /\ pc = "resolve"
  /\ ~match_version(find_name(req), find_version(req)).ok
  /\ response' = [kind |-> "not_found"]
  /\ pc' = "done"
  /\ UNCHANGED <<blob, files, req, crate_name, version, req_path, file_path,
                 file_content, is_rust_source, fetches, listings>>
  /\ UNCHANGED list_vars

\* a version matched by semver: redirect to the matched version
Redirect ==
  /\ pc = "resolve"
  /\ LET v == match_version(find_name(req), find_version(req))
     IN /\ v.ok
        /\ redirects(v)
        /\ crate_name' = use_name(find_name(req), v)
        /\ response' = [kind |-> "redirect",
                        url |-> redirect_url(req, use_name(find_name(req), v),
                                             v.version.version, drain4(req.path))]
  /\ pc' = "done"
  /\ UNCHANGED <<blob, files, req, version, req_path, file_path, file_content,
                 is_rust_source, fetches, listings>>
  /\ UNCHANGED list_vars

\* an exact version: the handler goes on, under the corrected name if any
Continue ==
  /\ pc = "resolve"
  /\ LET v == match_version(find_name(req), find_version(req))
     IN /\ v.ok
        /\ ~redirects(v)
        /\ crate_name' = use_name(find_name(req), v)
        /\ version' = v.version.version
        /\ LET ps == paths(req, use_name(find_name(req), v), v.version.version)
           IN req_path' = ps.req_path /\ file_path' = ps.file_path
  /\ pc' = "content"
  /\ UNCHANGED <<blob, files, req, file_content, is_rust_source, response, fetches,
                 listings>>
  /\ UNCHANGED list_vars

\* a directory is asked for: nothing is fetched
SkipFetch ==
  /\ pc = "content"
  /\ ~fetches_blob(file_path)
  /\ file_content' = None /\ is_rust_source' = FALSE
  /\ pc' = "listing"
  /\ UNCHANGED <<blob, files, req, crate_name, version, req_path, file_path, response,
                 fetches, listings>>
  /\ UNCHANGED list_vars

\* the blob is fetched, there is none or it is shown in the page
FetchInline(b) ==
  /\ pc = "content"
  /\ fetches_blob(file_path)
  /\ fetches' = Append(fetches, [name |-> crate_name, version |-> version,
                                 path |-> file_path])
  /\ blob' = b
  /\ IF b.some
       THEN /\ ~passes_through(b.val)
            /\ file_content' = inline(b.val).file_content
            /\ is_rust_source' = inline(b.val).is_rust_source
       ELSE file_content' = None /\ is_rust_source' = FALSE
  /\ pc' = "listing"
  /\ UNCHANGED <<files, req, crate_name, version, req_path, file_path, response,
                 listings>>
  /\ UNCHANGED list_vars

\* the blob is fetched and served as it is
FetchServe(b) ==
  /\ pc = "content"
  /\ fetches_blob(file_path)
  /\ fetches' = Append(fetches, [name |-> crate_name, version |-> version,
                                 path |-> file_path])
  /\ blob' = b
  /\ b.some
  /\ passes_through(b.val)
  /\ response' = serve(b.val)
  /\ pc' = "done"
  /\ UNCHANGED <<files, req, crate_name, version, req_path, file_path,
                 file_content, is_rust_source, listings>>
  /\ UNCHANGED list_vars

\* FileList::from_path, then the page or ResourceNotFound
BuildListing ==
  /\ pc = "listing"
  /\ listings' = Append(listings, [name |-> crate_name, version |-> version,
                                   req_path |-> req_path])
  /\ response' =
       listing_response(from_path(Query(files, crate_name, version), req_path),
                        req_path, file_content, is_rust_source)
  /\ pc' = "done"
  /\ UNCHANGED <<blob, files, req, crate_name, version, req_path, file_path,
                 file_content, is_rust_source, fetches>>
  /\ UNCHANGED list_vars

Next ==
  \/ \E r \in Requests : Receive(r)
  \/ VersionNotFound
  \/ Redirect
  \/ Continue
  \/ SkipFetch
  \/ \E b \in FetchResults(file_path) : FetchInline(b)
  \/ \E b \in FetchResults(file_path) : FetchServe(b)
  \/ BuildListing

Spec == Init /\ [][Next]_vars

(***************************************************************************)
(* Properties of FileList::from_path, checked under SpecList.              *)
(***************************************************************************)
\* the listing from_path returned, and the manifest it was made from
Listed == list_result.called /\ list_result.out.some
ListedFiles == list_result.out.val.files
HasManifest == rows # <<>> /\ rows[1].files.kind = "array"
Manifest == rows[1].files.items

\* p is the beginning of s
HasPrefix(s, p) == Len(p) <= Len(s) /\ \A i \in 1..Len(p) : s[i] = p[i]

\* a <= b in the byte-wise lexicographic order
LexLeq(a, b) ==
  \/ Len(a) <= Len(b) /\ \A i \in 1..Len(a) : a[i] = b[i]
  \/ \E k \in 1..Len(a) :
       /\ k <= Len(b)
       /\ \A i \in 1..(k - 1) : a[i] = b[i]
       /\ Code(a[k]) < Code(b[k])

\* the manifest entries that are not the marker and lie under p
Under(items, p) ==
  { i \in 1..Len(items) : items[i].path # CargoOk /\ HasPrefix(items[i].path, p) }

\* C1 as stated: no listing, of any directory, has an entry named .cargo-ok
C1_NoCargoOkAtAnyDepth ==
  Listed => \A i \in 1..Len(ListedFiles) : ListedFiles[i].name # CargoOk

\* C1 amended: the listing of the root directory (empty prefix) has no file
\* entry named .cargo-ok; the manifest entry whose whole path is .cargo-ok
\* is the one that is skipped
C1_RootListingHasNoCargoOkFile ==
  (Listed /\ list_path = <<>>) =>
    \A i \in 1..Len(ListedFiles) :
      ~(ListedFiles[i].name = CargoOk /\ ListedFiles[i].mime # Dir)

C1_Witness ==
  /\ Listed /\ list_path = <<>>
  /\ \E i \in 1..Len(Manifest) : Manifest[i].path = CargoOk
  /\ \E i \in 1..Len(Manifest) : Manifest[i].path # CargoOk

\* C2: for an existing release, from_path returns None exactly when no
\* manifest entry other than the .cargo-ok marker has a path that starts
\* with the prefix, and a listing it returns has at least one entry
C2_AbsentIffNothingUnderPrefix ==
  (list_result.called /\ HasManifest) =>
    /\ ~list_result.out.some <=> Under(Manifest, list_path) = {}
    /\ list_result.out.some => Len(ListedFiles) >= 1

C2_Witness ==
  /\ list_result.called /\ HasManifest
  /\ list_path = <<>>
  /\ Manifest # <<>>
  /\ \A i \in 1..Len(Manifest) : Manifest[i].path = CargoOk
  /\ ~list_result.out.some

\* C7: in a listing the dir entries come before the others, and within the
\* dir entries and within the others the lower-cased names do not decrease
C7_DirsFirstThenCaseInsensitiveNames ==
  Listed =>
    \A i, j \in 1..Len(ListedFiles) :
      i < j =>
        /\ ~(ListedFiles[i].mime # Dir /\ ListedFiles[j].mime = Dir)
        /\ (ListedFiles[i].mime = Dir <=> ListedFiles[j].mime = Dir) =>
             LexLeq(to_lowercase(ListedFiles[i].name),
                    to_lowercase(ListedFiles[j].name))

C7_Witness ==
  /\ Listed
  /\ \E i \in 1..Len(ListedFiles) : ListedFiles[i].mime = Dir
  /\ Manifest[1].path = <<"R", "E", "A", "D", "M", "E", ".", "m", "d">>
  /\ \E i, j \in 1..Len(ListedFiles) :
       /\ i < j
       /\ ListedFiles[i].mime # Dir /\ ListedFiles[j].mime # Dir
       /\ ~LexLeq(ListedFiles[i].name, ListedFiles[j].name)

\* C8: no two entries of a listing are the same (name, mime) pair
C8_NoDuplicateEntries ==
  Listed =>
    \A i, j \in 1..Len(ListedFiles) : i # j => ListedFiles[i] # ListedFiles[j]

C8_Witness ==
  /\ Listed
  /\ Cardinality(Under(Manifest, list_path)) > Len(ListedFiles)
  /\ \E i \in 1..Len(ListedFiles) : ListedFiles[i].mime = Dir

\* the entry C9 describes: the prefix taken off the front of the path only,
\* the rest split on /
ExpectedFile(file, p) ==
  LET rest == SubSeq(file.path, Len(p) + 1, Len(file.path))
      segments == split(rest, "/")
  IN [name |-> segments[1],
      mime |-> IF Len(segments) > 1 THEN Dir ELSE file.mime]

\* C9 as stated: every manifest entry under the prefix is listed as the first
\* segment of what follows the prefix, a dir when more segments follow
C9_PrefixTakenOffTheFrontOnly ==
  Listed =>
    /\ \A i \in Under(Manifest, list_path) :
         \E k \in 1..Len(ListedFiles) :
           ListedFiles[k] = ExpectedFile(Manifest[i], list_path)
    /\ \A k \in 1..Len(ListedFiles) :
         \E i \in Under(Manifest, list_path) :
           ListedFiles[k] = ExpectedFile(Manifest[i], list_path)

(***************************************************************************)
(* Properties of source_browser_handler, checked under Spec.               *)
(***************************************************************************)
Received == pc \in {"resolve", "content", "listing", "done"}

\* the path of the request as text, and what follows
\* /crate/{name}/{version}/source/ in it
RequestPath(r) == Slash \o join(r.path, Slash)
SubPath(r) ==
  SubSeq(RequestPath(r),
         Len(<<"/", "c", "r", "a", "t", "e", "/">>) + Len(find_name(r)) + 1 + Len(find_version(r)) + Len(<<"/", "s", "o", "u", "r", "c", "e", "/">>) + 1,
         Len(RequestPath(r)))

\* the crate is found under the requested name or its -/_ spelling
NameFound == normalize(find_name(req)) = normalize(StoredName)

\* the requested version is no stored version and semver matches it to some
SemverMatched ==
  /\ NameFound
  /\ find_version(req) \notin StoredVersions
  /\ \E v \in StoredVersions : semver_matches(find_version(req), v)

\* the newest stored version the requested version matches
ResolvedVersion ==
  CHOOSE v \in StoredVersions :
    /\ semver_matches(find_version(req), v)
    /\ \A w \in StoredVersions :
         semver_matches(find_version(req), w) => ~version_lt(v, w)

\* nothing but the marker lies under directory p in the manifest
AbsentUnder(fs, p) == Under(fs, p) = {}

\* C3: a request that reaches the listing and whose directory has no listing
\* ends not-found and renders no page, whatever the content step produced
C3_AbsentListingIsNotFound ==
  (pc = "done" /\ Len(listings) = 1 /\ AbsentUnder(files, listings[1].req_path))
    => response = [kind |-> "not_found"]

C3_Witness ==
  /\ pc = "done" /\ Len(listings) = 1
  /\ AbsentUnder(files, listings[1].req_path)
  /\ file_content.some
  /\ response.kind = "not_found"

\* C4: a fetched blob whose mime does not start with text and whose content
\* is not empty ends the request: it is served with its own mime type and
\* FileList::from_path is never called
C4_NonTextBlobIsServedWithoutListing ==
  (blob.some /\ ~HasPrefix(blob.val.mime, Text) /\ blob.val.content # <<>>) =>
    /\ pc = "done"
    /\ response = [kind |-> "file", mime |-> blob.val.mime,
                   body |-> blob.val.content]
    /\ listings = <<>>

C4_Witness ==
  /\ blob.some /\ blob.val.mime = ImagePng /\ blob.val.content # <<>>
  /\ response.kind = "file"
  /\ files # <<>>
  /\ AbsentUnder(files, req_path)

\* C5: a version matched by semver ends in a redirect to
\* /crate/{canonical name}/{matched version}/source/{sub-path}, the sub-path
\* being the request path after /crate/{name}/{version}/source/, and nothing
\* is fetched or listed
C5_SemverRedirectKeepsSubPath ==
  (Received /\ SemverMatched) =>
    /\ pc \in {"resolve", "done"}
    /\ fetches = <<>> /\ listings = <<>>
    /\ pc = "done" =>
         response = [kind |-> "redirect",
                     url |-> <<"h", "t", "t", "p", "s", ":", "/", "/", "d", "o", "c", "s", ".", "r", "s">> \o <<"/", "c", "r", "a", "t", "e", "/">> \o StoredName \o Slash
                             \o ResolvedVersion \o <<"/", "s", "o", "u", "r", "c", "e", "/">> \o SubPath(req)]

C5_Witness ==
  /\ pc = "done" /\ SemverMatched
  /\ find_version(req) = <<"*">>
  /\ response.kind = "redirect"
  /\ SubPath(req) = <<"s", "r", "c", "/", "l", "i", "b", ".", "r", "s">>

\* C6 as stated: a crate found through the correction of its name is always
\* answered with a redirect
C6_CorrectedNameIsRedirected ==
  (pc = "done" /\ NameFound /\ find_name(req) # StoredName
     /\ match_version(find_name(req), find_version(req)).ok)
    => response.kind = "redirect"

\* the request asks for a directory: nothing, or a path ending in /, follows
\* /source/
IsDirectoryRequest ==
  \/ SubPath(req) = <<>>
  \/ SubPath(req)[Len(SubPath(req))] = "/"

\* C10 as stated: for a directory request nothing is fetched from the storage
\* and the listing is reached without content
C10_DirectoryRequestFetchesNothing ==
  (Received /\ IsDirectoryRequest) =>
    /\ fetches = <<>>
    /\ pc = "listing" => (file_content = None /\ is_rust_source = FALSE)

====
